---- MODULE Spec2Model ----
(***************************************************************************)
(* GridSense AI backend (src/python_backend.py): the start-up loop that    *)
(* fills the model registry, the prediction orchestrator                   *)
(* generate_prediction_data with its real-model and fallback branches,     *)
(* and the HTTP routes.                                                    *)
(*                                                                         *)
(* Numbers.  A Python float or int is a pair <<hi, lo>> standing for the   *)
(* value (hi * Limb + lo) / 4, with 0 <= lo < Limb: a fixed-point count of *)
(* quarters held in two limbs, so that magnitudes beyond 2^53 (where       *)
(* IEEE-754 double subtraction stops being exact) are representable with   *)
(* TLC's 32-bit integers.  NaN is the pair <<0, -1>>.                      *)
(***************************************************************************)
EXTENDS Integers, Sequences, FiniteSets, TLC

----------------------------------------------------------------------------
(* Bounds of the model *)

\* the environments a request may run in (a clock value and a state of the
\* random source): Environments has MaxEnv + 1 elements
MaxEnv == 1
\* the longest output (time steps) an opaque model returns
MaxSteps == 3
\* the largest horizon a /predict query string names
MaxQueryHorizon == 3

----------------------------------------------------------------------------
(* Two-limb fixed-point numbers *)

Limb == 2^28

\* significant bits of a Python float (IEEE-754 double)
MantissaBits == 53

NaN == <<0, -1>>

IsNaN(x) == x[2] = -1

\* carries lo back into 0..Limb-1
Norm(hi, lo) ==
    IF lo < 0 THEN <<hi - 1, lo + Limb>>
    ELSE IF lo >= Limb THEN <<hi + 1, lo - Limb>>
    ELSE <<hi, lo>>

\* the number n (an integer count of units) and the number q / 4
FromInt(n) == Norm(IF n < 0 THEN -1 ELSE 0, IF n < 0 THEN Limb + 4 * n ELSE 4 * n)
FromQuarters(q) == Norm(IF q < 0 THEN -1 ELSE 0, IF q < 0 THEN Limb + q ELSE q)

\* exact sum and difference (Python int arithmetic; the real-number result of
\* a float operation before it is rounded to a double)
ExactAdd(a, b) == Norm(a[1] + b[1], a[2] + b[2])
ExactSub(a, b) == Norm(a[1] - b[1], a[2] - b[2])

IsNeg(x) == x[1] < 0
Neg(x) == IF x[2] = 0 THEN <<-x[1], 0>> ELSE <<-x[1] - 1, Limb - x[2]>>
Abs(x) == IF IsNeg(x) THEN Neg(x) ELSE x

RECURSIVE BitLen(_)
BitLen(n) == IF n = 0 THEN 0 ELSE 1 + BitLen(n \div 2)

\* number of binary digits of the magnitude, counted in quarters
Bits(x) == LET m == Abs(x) IN IF m[1] = 0 THEN BitLen(m[2]) ELSE 28 + BitLen(m[1])

\* x to the nearest multiple of step (a power of two below Limb), ties to the
\* even multiple: IEEE round-to-nearest-even, and Python's round() for step 4
RoundToMultiple(x, step) ==
    LET r    == x[2] % step
        down == x[2] - r
        odd  == (down \div step) % 2 = 1
        up   == (2 * r > step) \/ (2 * r = step /\ odd)
    IN  Norm(x[1], IF up THEN down + step ELSE down)

\* a real number rounded to the nearest double: exact when the magnitude has
\* at most MantissaBits binary digits (its high limb is then below
\* 2^(MantissaBits - 28)), else to the nearest multiple of its last place
ToDouble(x) ==
    IF Abs(x)[1] < 2^(MantissaBits - 28) THEN x
    ELSE RoundToMultiple(x, 2^(Bits(x) - MantissaBits))

\* float + float, float - float
FloatAdd(a, b) == IF IsNaN(a) \/ IsNaN(b) THEN NaN ELSE ToDouble(ExactAdd(a, b))
FloatSub(a, b) == IF IsNaN(a) \/ IsNaN(b) THEN NaN ELSE ToDouble(ExactSub(a, b))

\* round(x) of a finite float: the nearest integer, ties to even
PyRound(x) == RoundToMultiple(x, 4)

\* |a - b| <= 1 for two Python ints
WithinOne(a, b) ==
    LET d == Abs(ExactSub(a, b)) IN d[1] = 0 /\ d[2] <= 4

----------------------------------------------------------------------------
(* Clock, calendar fields and trigonometry *)

\* what a request reads from outside: datetime.now() in minutes since midnight
\* of day 0 (midnight, 17:30, ...) and the state of np.random
Environments == {[now |-> k * 1050, seed |-> k] : k \in 0..MaxEnv}

\* datetime.isoformat(): the calendar fields of the instant <<day, hour, minute>>
IsoFormat(t) == <<t \div 1440, (t \div 60) % 24, t % 60>>

\* the instant an ISO timestamp names (the inverse the client applies)
ParseIso(s) == s[1] * 1440 + s[2] * 60 + s[3]

\* datetime.hour
HourOf(t) == (t \div 60) % 24

\* strftime("%I:%M %p"): 12-hour clock, minute, AM/PM
TimeLabel(t) ==
    LET h == HourOf(t)
    IN  <<IF h % 12 = 0 THEN 12 ELSE h % 12, t % 60, IF h < 12 THEN "AM" ELSE "PM">>

\* amp * sin(pi * p / half) as a float with a fractional part in quarters:
\* Bhaskara's rational approximation of the sine, the period taken as
\* 2 * half whole steps
SinScaled(amp, p, half) ==
    LET q == p % (2 * half)
        x == IF q < half THEN q ELSE q - half
        v == (64 * amp * x * (half - x)) \div (5 * half * half - 4 * x * (half - x))
    IN  FromQuarters(IF q < half THEN v ELSE -v)

\* np.random.randint(lo, hi): the k-th draw of the stream started at seed,
\* an integer in lo..hi-1
RandInt(seed, k, lo, hi) == lo + ((seed * 97 + k * 61 + 13) % (hi - lo))

----------------------------------------------------------------------------
(* Program constants *)

HORIZONS == <<3, 6, 12, 24>>

HorizonSet == {HORIZONS[k] : k \in 1..Len(HORIZONS)}

\* default of request.args.get('horizon', 6)
DefaultHorizon == 6

\* points_per_hour of the fallback generator
PointsPerHour == 30

\* minutes between two points of the real-model path
RealStepMinutes == 30

\* the half period of sin(i / 10) and of sin(i / 5), in samples (10 pi, 5 pi)
DailyHalfPeriod == 31
WindHalfPeriod == 16

----------------------------------------------------------------------------
(* Responses *)

NoResponse == [status |-> "none"]

\* jsonify({"status": "success", "source": ..., "data": data}), 200
SuccessResponse(source, data) ==
    [code |-> 200, status |-> "success", source |-> source, data |-> data]

\* jsonify({"status": "error", "message": str(e)}), 500
ErrorResponse(msg) == [code |-> 500, status |-> "error", message |-> msg]

\* the framework's answer to an exception that escapes a view function
UnhandledResponse(exc) == [code |-> 500, status |-> "unhandled", exception |-> exc]

\* ForecastPoint with the operands of the gap exchanged: round(sup_val - dem_val)
ForecastPointGapSwapped(t, dem, sup) ==
    [timestamp    |-> IsoFormat(t),
     timeLabel    |-> TimeLabel(t),
     demand       |-> PyRound(dem),
     supply       |-> PyRound(sup),
     gap          |-> PyRound(FloatSub(sup, dem)),
     isPrediction |-> TRUE]

\* one record of the data array
ForecastPoint(t, dem, sup) ==
    [timestamp    |-> IsoFormat(t),
     timeLabel    |-> TimeLabel(t),
     demand       |-> PyRound(dem),
     supply       |-> PyRound(sup),
     gap          |-> PyRound(FloatSub(dem, sup)),
     isPrediction |-> TRUE]

----------------------------------------------------------------------------
(* numpy arrays: [shape |-> <<d1, ..., dn>>, flat |-> the elements, row-major]; *)
(* an operation that raises yields [error |-> str(e)]                            *)

IsError(x) == "error" \in DOMAIN x

Raise(msg) == [error |-> msg]

Ndim(a) == Len(a.shape)

RECURSIVE Product(_)
Product(dims) == IF dims = <<>> THEN 1 ELSE Head(dims) * Product(Tail(dims))

\* a[0]
Index0(a) ==
    IF IsError(a) THEN a
    ELSE IF Ndim(a) = 0 THEN Raise("too many indices for array")
    ELSE IF a.shape[1] = 0 THEN Raise("index 0 is out of bounds for axis 0 with size 0")
    ELSE [shape |-> Tail(a.shape),
          flat  |-> SubSeq(a.flat, 1, Product(Tail(a.shape)))]

\* a[:, c] of an array of at most two dimensions
Column(a, c) ==
    IF IsError(a) THEN a
    ELSE IF Ndim(a) < 2 THEN Raise("too many indices for array")
    ELSE IF c >= a.shape[2] THEN Raise("index is out of bounds for axis 1")
    ELSE [shape |-> <<a.shape[1]>>,
          flat  |-> [r \in 1..a.shape[1] |-> a.flat[(r - 1) * a.shape[2] + c + 1]]]

\* np.zeros_like(a)
ZerosLike(a) ==
    IF IsError(a) THEN a
    ELSE [shape |-> a.shape, flat |-> [k \in 1..Len(a.flat) |-> FromInt(0)]]

\* len(a): [len |-> n], or a raise
PyLen(a) ==
    IF IsError(a) THEN a
    ELSE IF Ndim(a) = 0 THEN Raise("len() of unsized object")
    ELSE [len |-> a.shape[1]]

----------------------------------------------------------------------------
(* What calling a loaded model can do: the model is an opaque collaborator  *)
(* fed random tensors, so each call's outcome is an input of the request    *)

\* the values an output tensor is filled with, by position k >= 1
Fill(kind, k) ==
    CASE kind = "fractions" -> FromQuarters(7 * k - 12)
      [] kind = "huge"      -> IF k % 2 = 1 THEN <<2^30, 0>> ELSE FromInt(2 * k + 1)
      [] kind = "nan"       -> IF k = 3 THEN NaN ELSE FromQuarters(5 * k)

Tensor(shape, kind) ==
    [shape |-> shape, flat |-> [k \in 1..Product(shape) |-> Fill(kind, k)]]

OutputShapes ==
    {<<1, t, 2>> : t \in 0..MaxSteps} \cup {<<1, MaxSteps, 1>>, <<0, MaxSteps, 2>>}
    \cup {<<1, k>> : k \in 0..2} \cup {<<MaxSteps>>, <<1>>, <<>>}

\* lines 63-71: a raise of get_model_inputs or of the forward pass (with the
\* text of the exception, possibly none), a return value .cpu().numpy()
\* cannot convert, or an array of some shape
ForwardOutcomes ==
    {[kind |-> "raise", msg |-> m] : m \in {"", "size mismatch"}}
    \cup {[kind |-> "value", value |-> [error |-> "'tuple' object has no attribute 'cpu'"]]}
    \cup {[kind |-> "value", value |-> Tensor(sh, "fractions")] : sh \in OutputShapes}
    \cup {[kind |-> "value", value |-> Tensor(<<1, MaxSteps, 2>>, f)] : f \in {"huge", "nan"}}

----------------------------------------------------------------------------
(* generate_prediction_data *)

\* "Real Model ({horizon_hours}h)"
RealSource(h) == "Real Model (" \o ToString(h) \o "h)"

FallbackSource == "LS-DL Model"

\* prediction[0][:, 0] if prediction.ndim == 3 else prediction[0]
PredictedDemand(prediction) ==
    IF Ndim(prediction) = 3 THEN Column(Index0(prediction), 0) ELSE Index0(prediction)

\* prediction[0][:, 1] if prediction.shape[-1] > 1 else np.zeros_like(predicted_demand)
PredictedSupply(prediction, demand) ==
    IF prediction.shape[Ndim(prediction)] > 1
    THEN Column(Index0(prediction), 1)
    ELSE ZerosLike(demand)

\* RealRecords answering with the records built before the raise
RealRecordsPartial(now, demand, supply, n) ==
    LET bad  == {i \in 1..n : IsNaN(demand.flat[i]) \/ IsNaN(supply.flat[i])}
        last == IF bad = {} THEN n ELSE (CHOOSE i \in bad : \A j \in bad : i <= j) - 1
    IN  [data |-> [i \in 1..last |->
            ForecastPoint(now + (i - 1) * RealStepMinutes, demand.flat[i], supply.flat[i])]]

\* lines 78-99: the records of the real-model path, or the first raise
RealRecords(now, demand, supply, n) ==
    IF \E i \in 1..n : IsNaN(demand.flat[i]) \/ IsNaN(supply.flat[i])
    THEN Raise("cannot convert float NaN to integer")
    ELSE [data |-> [i \in 1..n |->
            ForecastPoint(now + (i - 1) * RealStepMinutes, demand.flat[i], supply.flat[i])]]

\* lines 63-99: branch A, with every raise caught by the handler of line 143
RealModelPath(h, now, fo) ==
    IF fo.kind = "raise" THEN ErrorResponse(fo.msg)
    ELSE IF IsError(fo.value) THEN ErrorResponse(fo.value.error)
    ELSE LET prediction == fo.value
             demand     == PredictedDemand(prediction)
         IN  IF IsError(demand) THEN ErrorResponse(demand.error)
             ELSE LET supply == PredictedSupply(prediction, demand)
                      n      == PyLen(demand)
                  IN  IF IsError(supply) THEN ErrorResponse(supply.error)
                      ELSE IF IsError(n) THEN ErrorResponse(n.error)
                      ELSE LET recs == RealRecords(now, demand, supply, n.len)
                           IN  IF IsError(recs) THEN ErrorResponse(recs.error)
                               ELSE SuccessResponse(RealSource(h), recs.data)

\* MinutesOffset with the quotient inverted: i * (points_per_hour // 60)
MinutesOffsetInverted(i) == i * (PointsPerHour \div 60)

\* line 111: minutes_offset = i * (60 / points_per_hour)
MinutesOffset(i) == i * (60 \div PointsPerHour)

\* lines 112-135: the point of sample index i
FallbackPoint(now, seed, i) ==
    LET future_time == now + MinutesOffset(i)
        daily_cycle == SinScaled(2000, i, DailyHalfPeriod)
        noise       == FromInt(RandInt(seed, 2 * i, -200, 200))
        demand      == FloatAdd(FloatAdd(FromInt(30000), daily_cycle), noise)
        hour        == HourOf(future_time)
        raw_solar   == SinScaled(8000, hour - 6, 12)
        solar       == IF 6 <= hour /\ hour <= 18
                       THEN (IF IsNeg(raw_solar) THEN FromInt(0) ELSE raw_solar)
                       ELSE FromInt(0)
        wind        == FloatAdd(FloatAdd(FromInt(5000), SinScaled(1000, i, WindHalfPeriod)),
                                FromInt(RandInt(seed, 2 * i + 1, -500, 500)))
        supply      == FloatAdd(wind, solar)
    IN  ForecastPoint(future_time, demand, supply)

\* FallbackPath looping over range(1, total_points)
FallbackPathSkipsFirst(h, now, seed) ==
    LET total_points == h * PointsPerHour
    IN  SuccessResponse(FallbackSource,
                        [k \in 1..(total_points - 1) |-> FallbackPoint(now, seed, k)])

\* lines 103-141: branch B; range(total_points) is empty when total_points <= 0
FallbackPath(h, now, seed) ==
    LET total_points == h * PointsPerHour
    IN  SuccessResponse(FallbackSource,
                        [k \in 1..total_points |-> FallbackPoint(now, seed, k - 1)])

\* branch B tabulated for every horizon a route can pass and every
\* environment; the comparison makes TLC compute the entries once, when it
\* evaluates this definition, instead of at every use
FallbackSeries ==
    LET keys == ((-1..MaxQueryHorizon) \cup HorizonSet \cup {DefaultHorizon}) \X Environments
        tab  == [p \in keys |-> FallbackPath(p[1], p[2].now, p[2].seed)]
    IN  IF tab = tab THEN tab ELSE tab

PyNone == [cls |-> "NoneType"]

\* models.get(horizon_hours)
Get(registry, h) == IF h \in DOMAIN registry THEN registry[h] ELSE PyNone

\* `if active_model:` (line 62): None is false, an object that defines a
\* length is false when the length is 0, any other object is true
Truthy(active_model) ==
    /\ active_model # PyNone
    /\ ("len" \in DOMAIN active_model => active_model.len # 0)

----------------------------------------------------------------------------
(* Query strings: sequences of characters *)

Digits == <<"0", "1", "2", "3", "4", "5", "6", "7", "8", "9">>

IsDigit(c) == \E d \in 1..10 : Digits[d] = c

DigitValue(c) == (CHOOSE d \in 1..10 : Digits[d] = c) - 1

RECURSIVE DecimalValue(_)
DecimalValue(cs) ==
    IF cs = <<>> THEN 0
    ELSE 10 * DecimalValue(SubSeq(cs, 1, Len(cs) - 1)) + DigitValue(cs[Len(cs)])

\* int(s) for a string: an optional sign and at least one decimal digit give
\* [value |-> n]; anything else raises ValueError
PyInt(s) ==
    LET signed == s # <<>> /\ s[1] \in {"-", "+"}
        body   == IF signed THEN Tail(s) ELSE s
    IN  IF body # <<>> /\ \A k \in 1..Len(body) : IsDigit(body[k])
        THEN [value |-> IF signed /\ s[1] = "-" THEN -DecimalValue(body) ELSE DecimalValue(body)]
        ELSE Raise("invalid literal for int() with base 10")

\* the decimal numeral of n, for |n| < 100
Numeral(n) ==
    LET m  == IF n < 0 THEN -n ELSE n
        ds == IF m < 10 THEN <<Digits[m + 1]>>
              ELSE <<Digits[(m \div 10) + 1], Digits[(m % 10) + 1]>>
    IN  IF n < 0 THEN <<"-">> \o ds ELSE ds

\* the ?horizon= values a client sends; Missing is the parameter left out
Missing == <<"missing">>

QueryArgs ==
    {Numeral(n) : n \in -1..MaxQueryHorizon}
    \cup {<<"a", "b", "c">>, <<>>, <<"6", ".", "0">>, <<"+", "6">>}

----------------------------------------------------------------------------
(* State *)

VARIABLES
    loop,       \* position of `for h in HORIZONS`: the index of the next horizon
    models,     \* the registry: horizon -> loaded model object
    log,        \* what start-up printed for each horizon
    request,    \* the request being answered
    call,       \* the argument and the inputs of the generate_prediction_data call
    response    \* the response in flight

vars == <<loop, models, log, request, call, response>>

NoRequest == [route |-> "none"]
NoCall == [horizon |-> "none"]

\* what torch.load can return for a file that unpickles
PickledObjects ==
    {[cls |-> "LSDLNet", eval |-> TRUE],
     [cls |-> "Sequential", eval |-> TRUE, len |-> 0],
     [cls |-> "OrderedDict", eval |-> FALSE, len |-> 2]}

\* the file of a horizon: absent, unreadable by torch.load, or a pickled object
FileStates ==
    {[exists |-> FALSE], [exists |-> TRUE, corrupt |-> TRUE]}
    \cup {[exists |-> TRUE, corrupt |-> FALSE, object |-> o] : o \in PickledObjects}

Init ==
    /\ loop = 1
    /\ models = <<>>
    /\ log = [h \in HorizonSet |-> "pending"]
    /\ request = NoRequest
    /\ call = NoCall
    /\ response = NoResponse

Serving == loop > Len(HORIZONS)

\* LoadOne storing the object in the registry before it calls eval()
LoadOneRegistersBeforeEval(registry, h, f) ==
    IF ~f.exists THEN <<registry, "not found">>
    ELSE IF f.corrupt THEN <<registry, "Error loading: load">>
    ELSE <<[k \in DOMAIN registry \cup {h} |-> IF k = h THEN f.object ELSE registry[k]],
           IF f.object.eval THEN "loaded successfully" ELSE "Error loading: eval">>

\* lines 30-41: the body of the start-up loop for horizon h and file state f,
\* as the pair <<models, message printed last>>
LoadOne(registry, h, f) ==
    IF ~f.exists THEN <<registry, "not found">>
    ELSE IF f.corrupt THEN <<registry, "Error loading: load">>
    ELSE IF ~f.object.eval THEN <<registry, "Error loading: eval">>
    ELSE <<[k \in DOMAIN registry \cup {h} |-> IF k = h THEN f.object ELSE registry[k]],
           "loaded successfully">>

\* lines 25-41: one iteration of `for h in HORIZONS`
LoadModel ==
    /\ ~Serving
    /\ \E f \in FileStates :
         LET h == HORIZONS[loop]
             r == LoadOne(models, h, f)
         IN  /\ models' = r[1]
             /\ log' = [log EXCEPT ![h] = r[2]]
    /\ loop' = loop + 1
    /\ UNCHANGED <<request, call, response>>

\* lines 54-145: generate_prediction_data(h), with the clock, the random source
\* and the model's behaviour as inputs; c records the call, r is the response
GeneratePredictionData(registry, h, c, r) ==
    \E env \in Environments :
        IF Truthy(Get(registry, h))
        THEN \E fo \in ForwardOutcomes :
                /\ c = [horizon |-> h, branch |-> "real", now |-> env.now, forward |-> fo]
                /\ r = RealModelPath(h, env.now, fo)
        ELSE /\ c = [horizon |-> h, branch |-> "fallback", now |-> env.now, seed |-> env.seed]
             /\ r = FallbackSeries[<<h, env>>]

Idle == Serving /\ response = NoResponse

\* lines 149-165: GET /
Home ==
    /\ Idle
    /\ request' = [route |-> "/"]
    /\ call' = NoCall
    /\ response' = [code |-> 200, status |-> "online",
                    models_status |-> [h \in HorizonSet |-> h \in DOMAIN models]]
    /\ UNCHANGED <<loop, models, log>>

\* lines 167-170: GET /predict
PredictGeneric ==
    /\ Idle
    /\ \E arg \in QueryArgs \cup {Missing} :
         /\ request' = [route |-> "/predict", horizon |-> arg]
         /\ LET horizon == IF arg = Missing THEN [value |-> DefaultHorizon] ELSE PyInt(arg)
            IN  IF IsError(horizon)
                THEN /\ call' = NoCall
                     /\ response' = UnhandledResponse("ValueError")
                ELSE GeneratePredictionData(models, horizon.value, call', response')
    /\ UNCHANGED <<loop, models, log>>

\* PredictFixed dropping the model of a horizon whose request failed
PredictFixedEvicts(route, h) ==
    /\ Idle
    /\ request' = [route |-> route]
    /\ GeneratePredictionData(models, h, call', response')
    /\ models' = IF response'.status = "error"
                 THEN [k \in DOMAIN models \ {h} |-> models[k]]
                 ELSE models
    /\ UNCHANGED <<loop, log>>

\* lines 172-186: GET /predict/3h, /predict/6h, /predict/12h, /predict/24h
PredictFixed(route, h) ==
    /\ Idle
    /\ request' = [route |-> route]
    /\ GeneratePredictionData(models, h, call', response')
    /\ UNCHANGED <<loop, models, log>>

\* the 3h route passing the horizon of the 6h route
Predict3hPassesSix == PredictFixed("/predict/3h", 6)

Predict3h == PredictFixed("/predict/3h", 3)
Predict6h == PredictFixed("/predict/6h", 6)
Predict12h == PredictFixed("/predict/12h", 12)
Predict24h == PredictFixed("/predict/24h", 24)

\* the framework sends the response; the worker is free again
Deliver ==
    /\ response # NoResponse
    /\ request' = NoRequest
    /\ call' = NoCall
    /\ response' = NoResponse
    /\ UNCHANGED <<loop, models, log>>

Next ==
    \/ LoadModel
    \/ Home
    \/ PredictGeneric
    \/ Predict3h
    \/ Predict6h
    \/ Predict12h
    \/ Predict24h
    \/ Deliver

Spec == Init /\ [][Next]_vars

----------------------------------------------------------------------------
(* Properties *)

\* generate_prediction_data was called and its response is in flight
Called == call # NoCall

HasData == "data" \in DOMAIN response

\* the tensor the model returned, when the forward pass and .cpu().numpy()
\* both went through
ReturnedTensor ==
    /\ Called
    /\ call.branch = "real"
    /\ call.forward.kind = "value"
    /\ ~IsError(call.forward.value)

\* C1: a successful response has source "Real Model (<h>h)" when a model is
\* registered under the key h and source "LS-DL Model" when none is; no other
\* source is returned
C1_SourceFollowsRegistration ==
    (Called /\ response.status = "success") =>
        /\ call.horizon \in DOMAIN models => response.source = RealSource(call.horizon)
        /\ call.horizon \notin DOMAIN models => response.source = FallbackSource

CompleteLength ==
    IF call.branch = "fallback"
    THEN (IF call.horizon > 0 THEN call.horizon * 30 ELSE 0)
    ELSE call.forward.value.shape[2]

\* a NaN among the values the returned tensor holds
ReturnsNaN == ReturnedTensor /\ \E k \in DOMAIN call.forward.value.flat :
                                    IsNaN(call.forward.value.flat[k])

\* every response of generate_prediction_data is a success with the complete
\* series or a 500 error of exactly {status, message}; a raise of the forward
\* pass, of the conversion or of the record loop gives the error, whose
\* message is str(e)
AllOrNothing ==
    Called =>
        /\ \/ /\ response.status = "success"
              /\ response.code = 200
              /\ DOMAIN response = {"code", "status", "source", "data"}
              /\ Len(response.data) = CompleteLength
           \/ /\ response.status = "error"
              /\ response.code = 500
              /\ DOMAIN response = {"code", "status", "message"}
        /\ (call.branch = "real" /\ call.forward.kind = "raise") =>
              (response.status = "error" /\ response.message = call.forward.msg)
        /\ (call.branch = "real" /\ call.forward.kind = "value" /\ IsError(call.forward.value)) =>
              (response.status = "error" /\ response.message = call.forward.value.error)
        /\ ReturnsNaN => response.status = "error"

\* C3 as stated: a raise on the real-model path gives HTTP 500 with
\* {status "error", message a non-empty string} and no data array; every
\* response is a success with the complete series or an error with no data
C3_ErrorHasNonEmptyMessage ==
    /\ AllOrNothing
    /\ (Called /\ response.status = "error") => response.message # ""

\* C3 amended: the same, the message being str(e), which is empty for an
\* exception raised without text
C3_AllOrNothing == AllOrNothing

\* the record loop raised at its second element, after one record was built
C3_Witness ==
    /\ ReturnsNaN
    /\ ~IsNaN(call.forward.value.flat[1])
    /\ response.status = "error"
    /\ ~HasData

\* C4: GET /predict with horizon missing or unparseable calls
\* generate_prediction_data(6) and returns its response
C4_DefaultsToSix ==
    (/\ request.route = "/predict"
     /\ (request.horizon = Missing \/ IsError(PyInt(request.horizon)))) =>
        /\ Called
        /\ call.horizon = 6
        /\ response.status \in {"success", "error"}

\* C5: on the fallback branch the point of sample index i carries the
\* timestamp now + 2 i minutes, so consecutive timestamps are exactly 2
\* minutes apart and strictly increasing
C5_TwoMinuteSpacing ==
    (Called /\ call.branch = "fallback") =>
        /\ \A k \in DOMAIN response.data :
              ParseIso(response.data[k].timestamp) = call.now + 2 * (k - 1)
        /\ \A k \in DOMAIN response.data : k > 1 =>
              ParseIso(response.data[k].timestamp)
                  = ParseIso(response.data[k - 1].timestamp) + 2

\* a fallback series that runs over midnight
C5_Witness ==
    /\ Called
    /\ call.branch = "fallback"
    /\ Len(response.data) >= 2
    /\ response.data[1].timestamp[1] # response.data[Len(response.data)].timestamp[1]

\* |gap - (demand - supply)| <= 1 for the recorded integers of point p
GapWithinOne(p) == WithinOne(p.gap, ExactSub(p.demand, p.supply))

\* magnitude below 2^50
Moderate(x) == Abs(x)[1] < 2^(MantissaBits - 29)

\* C6 as stated: on either path the recorded gap differs from recorded demand
\* minus recorded supply by at most 1, for all demand and supply values
C6_GapWithinOneAlways ==
    (Called /\ HasData) => \A k \in DOMAIN response.data : GapWithinOne(response.data[k])

\* C6 amended: the same for every point whose demand and supply are below
\* 2^50 in magnitude, which every point of the fallback branch is
C6_GapWithinOneModerate ==
    (Called /\ HasData) =>
        \A k \in DOMAIN response.data :
            LET p == response.data[k]
            IN  /\ call.branch = "fallback" => (Moderate(p.demand) /\ Moderate(p.supply))
                /\ (Moderate(p.demand) /\ Moderate(p.supply)) => GapWithinOne(p)

\* a point whose three independent roundings disagree by one
C6_Witness ==
    /\ Called
    /\ HasData
    /\ \E k \in DOMAIN response.data :
          LET p == response.data[k]
          IN  /\ Moderate(p.demand) /\ Moderate(p.supply)
              /\ p.gap # ExactSub(p.demand, p.supply)

\* C7 as stated: GET /predict/3h returns exactly 90 points, each with
\* isPrediction true, in every registry state
C7_NinetyPointsAlways ==
    request.route = "/predict/3h" =>
        /\ HasData
        /\ Len(response.data) = 90
        /\ \A k \in DOMAIN response.data : response.data[k].isPrediction = TRUE

\* C7 amended: GET /predict/3h returns exactly 90 points, each with
\* isPrediction true, whenever the registry holds no model the truth test of
\* line 62 accepts for horizon 3
C7_NinetyPointsOnFallback ==
    (request.route = "/predict/3h" /\ ~Truthy(Get(models, 3))) =>
        /\ HasData
        /\ call.horizon = 3
        /\ Len(response.data) = 90
        /\ \A k \in DOMAIN response.data : response.data[k].isPrediction = TRUE

\* the 3h route served by the fallback while another horizon has a model
C7_Witness ==
    /\ request.route = "/predict/3h"
    /\ 3 \notin DOMAIN models
    /\ 6 \in DOMAIN models
    /\ HasData
    /\ Len(response.data) = 90

\* C8: at start-up each horizon is handled on its own: a missing file or a
\* raise of torch.load or eval leaves it out of the registry and the loop goes
\* on to the next horizon; h is registered only if load and eval both
\* succeeded; a request for an unregistered horizon is served by the fallback
C8_StartupIsolatesFailures ==
    /\ \A k \in 1..Len(HORIZONS) :
          LET h == HORIZONS[k]
          IN  IF k < loop
              THEN /\ log[h] # "pending"
                   /\ h \in DOMAIN models <=> log[h] = "loaded successfully"
              ELSE /\ log[h] = "pending"
                   /\ h \notin DOMAIN models
    /\ DOMAIN models \subseteq HorizonSet
    /\ ~Serving => ENABLED LoadModel
    /\ (Called /\ call.horizon \in HorizonSet /\ log[call.horizon] # "loaded successfully") =>
          (call.branch = "fallback" /\ response.source = FallbackSource)

\* load failed for 3, eval failed for 6, no file for 12, and 24 was still
\* loaded; a request for 6 is then served by the fallback
C8_Witness ==
    /\ Serving
    /\ log[3] = "Error loading: load"
    /\ log[6] = "Error loading: eval"
    /\ log[12] = "not found"
    /\ 24 \in DOMAIN models
    /\ Called
    /\ call.horizon = 6
    /\ response.source = FallbackSource

\* C9: once the start-up loop has finished no step changes the registry
C9_RegistryReadOnly == [][Serving => models' = models]_vars

\* a failed request with a non-empty registry
C9_Witness ==
    /\ Serving
    /\ models # <<>>
    /\ Called
    /\ response.status = "error"

\* C10: a 3-dimensional prediction gives demand from channel 0 and supply from
\* channel 1; a 2-dimensional one (batch, k) gives demand from its k values and
\* supply 0; the request succeeds with one point per demand element
C10_PostProcessing ==
    (ReturnedTensor /\ ~ReturnsNaN) =>
        LET t  == call.forward.value
            sh == t.shape
        IN  /\ (Len(sh) = 3 /\ sh[1] >= 1 /\ sh[3] >= 2) =>
                  /\ response.status = "success"
                  /\ Len(response.data) = sh[2]
                  /\ \A i \in 1..sh[2] :
                        /\ response.data[i].demand = PyRound(t.flat[(i - 1) * sh[3] + 1])
                        /\ response.data[i].supply = PyRound(t.flat[(i - 1) * sh[3] + 2])
            /\ (Len(sh) = 2 /\ sh[1] >= 1) =>
                  /\ response.status = "success"
                  /\ Len(response.data) = sh[2]
                  /\ \A i \in 1..sh[2] :
                        /\ response.data[i].demand = PyRound(t.flat[i])
                        /\ response.data[i].supply = FromInt(0)
====
